---------------------------- MODULE Spec2Model ----------------------------
(***************************************************************************)
(* Model of the DocuVault prescription pipeline:                            *)
(*   extraction/prescription_processor.py  PrescriptionProcessor            *)
(*   extraction/llm_extractor.py           LLMExtractor                     *)
(*   extraction/vision_extractor.py        VisionExtractor                  *)
(*   extraction/schema.py                  the pydantic records             *)
(*                                                                          *)
(* Confidences are integers in hundredths (0.6 is 60).  An absent optional  *)
(* number is None, an absent optional string is "None".  The parent folder  *)
(* of an image path is the set of word fragments its name is made of, so    *)
(* that Python's substring test `kw in name` is membership.                 *)
(***************************************************************************)
EXTENDS Integers, Sequences, FiniteSets, TLC

VARIABLES
    vision,             \* vision_extractor is not None   (module global)
    llm_text,           \* llm_extractor is not None      (module global)
    op,                 \* entry point running: "none", "process", "retry"
    pc,                 \* position inside the running entry point
    image_path,         \* process: [folder, exists]
    force_vision,       \* process: the override argument
    ocr_text,           \* process: text returned by the OCR engine
    ocr_confidence,     \* process: confidence returned by the OCR engine
    prescription_type,  \* process: result of classify_prescription_type
    prescription,       \* process: the ExtractedPrescription being built
    metadata,           \* process: the processing metadata dict
    calls,              \* per document: invocations of each strategy / remote API
    max_retries,        \* extract_with_retry: argument
    attempt,            \* extract_with_retry: loop variable (attempts started)
    total_time,         \* extract_with_retry: accumulated elapsed time
    log,                \* extract_with_retry: <<[ok, time, typed]>> of the attempts made
    document,           \* extract_with_retry: record of the latest attempt
    result,             \* extract_with_retry: the returned record
    image_paths,        \* process_batch: argument
    index,              \* process_batch: number of paths the loop has taken
    results,            \* process_batch: the list being built
    response,           \* extract_json_from_response: the text argument
    json_result         \* extract_json_from_response: [ok, obj] it gave

procVars  == <<image_path, force_vision, ocr_text, ocr_confidence,
               prescription_type, prescription, metadata, calls>>
retryVars == <<max_retries, attempt, total_time, log, document, result>>
batchVars == <<image_paths, index, results>>
jsonVars == <<response, json_result>>
vars == <<vision, llm_text, op, pc, image_path, force_vision, ocr_text,
          ocr_confidence, prescription_type, prescription, metadata, calls,
          max_retries, attempt, total_time, log, document, result,
          image_paths, index, results, response, json_result>>

(***************************************************************************)
(* Bounds of the model                                                      *)
(***************************************************************************)
MaxFolderWords == 2
MaxRetries == 3
MaxElapsed == 2
MaxBatch == 2

None == -1

(***************************************************************************)
(* Program constants                                                        *)
(***************************************************************************)
HANDWRITING_CONFIDENCE_THRESHOLD == 60
VISION_ALWAYS_FOR_SIGNATURES == TRUE
HandwrittenBelow == 50
MixedBelow == 70
DefaultMaxRetries == 2

\* OCR confidences the engine may report (hundredths), around every threshold.
Confidences == {0, 45, 49, 50, 59, 60, 69, 70, 80, 95, 100}

\* Word fragments of a parent folder name.  "Print" differs from "print" only
\* in case; "scans" carries no keyword.
FolderWords == {"handwrit", "Print", "mixed", "screen", "digital", "scans"}
Folders == {f \in SUBSET FolderWords : Cardinality(f) <= MaxFolderWords}

\* OCR texts, as sequences of lines (text.split('\n')).  Strings are ASCII:
\* the Vietnamese words of the patterns and of the texts are written without
\* their diacritics ("vien", "sang", "sau an", "ngay", "lan").
OcrTexts ==
    { <<>>,
      <<"1. Amoxicillin 500mg 2 vien sang sau an", "sang 1 vien ngay 2 lan">>,
      <<"Paracetamol 1 tablet", "  ", "- ab">> }

\* Python's None where a text is expected.
NoText == <<"<None>">>

(***************************************************************************)
(* Strings: str.lower, str.strip, str.replace, `in`, and the pieces of the  *)
(* regular expressions of ocr_parser.py.                                    *)
(***************************************************************************)
Char(s, i) == SubSeq(s, i, i)
From(s, i) == SubSeq(s, i, Len(s))
StartsWith(s, i, p) ==
    /\ i >= 1 /\ i + Len(p) - 1 <= Len(s)
    /\ SubSeq(s, i, i + Len(p) - 1) = p
Contains(s, p) == \E i \in 1..(Len(s) - Len(p) + 1) : StartsWith(s, i, p)

DigitChars == {"0", "1", "2", "3", "4", "5", "6", "7", "8", "9"}
UpperCase == "ABCDEFGHIJKLMNOPQRSTUVWXYZ"
LowerCase == "abcdefghijklmnopqrstuvwxyz"

LowerChar(c) ==
    IF \E i \in 1..26 : Char(UpperCase, i) = c
    THEN Char(LowerCase, CHOOSE i \in 1..26 : Char(UpperCase, i) = c)
    ELSE c

RECURSIVE lower(_)
lower(s) == IF Len(s) = 0 THEN "" ELSE LowerChar(Char(s, 1)) \o lower(From(s, 2))

\* first position >= i that holds no character of cs (Len(s) + 1 if none)
RECURSIVE Skip(_, _, _)
Skip(s, i, cs) ==
    IF i <= Len(s) /\ Char(s, i) \in cs THEN Skip(s, i + 1, cs) ELSE i

RECURSIVE RStripFrom(_, _)
RStripFrom(s, cs) ==
    IF Len(s) > 0 /\ Char(s, Len(s)) \in cs
    THEN RStripFrom(SubSeq(s, 1, Len(s) - 1), cs) ELSE s

strip(s) == RStripFrom(From(s, Skip(s, 1, {" "})), {" "})

RECURSIVE replace(_, _)
replace(s, p) ==
    IF Len(s) < Len(p) THEN s
    ELSE IF StartsWith(s, 1, p) THEN replace(From(s, Len(p) + 1), p)
    ELSE Char(s, 1) \o replace(From(s, 2), p)

\* re.sub(r"\s+", " ", s)
RECURSIVE CollapseSpaces(_)
CollapseSpaces(s) ==
    IF Len(s) = 0 THEN ""
    ELSE IF Char(s, 1) = " " THEN " " \o CollapseSpaces(From(s, Skip(s, 1, {" "})))
    ELSE Char(s, 1) \o CollapseSpaces(From(s, 2))

(***************************************************************************)
(* schema.py                                                                *)
(***************************************************************************)
PrescriptionTypes == {"handwritten", "printed", "mixed", "digital"}

\* SignatureInfo; `some` is FALSE for Python's None.
NoSignature ==
    [some |-> FALSE, is_present |-> FALSE, confidence |-> None,
     signer_name |-> "None"]
SignatureInfo(is_present, confidence) ==
    [some |-> TRUE, is_present |-> is_present, confidence |-> confidence,
     signer_name |-> "None"]
NamedSignature(is_present, confidence, signer_name) ==
    [some |-> TRUE, is_present |-> is_present, confidence |-> confidence,
     signer_name |-> signer_name]

\* ExtractedPrescription() with every field at its declared default.
ExtractedPrescription(document_type) ==
    [document_type     |-> document_type,
     prescription_type |-> "None",
     medications       |-> <<>>,
     doctor_signature  |-> NoSignature,
     extraction_method |-> "None",
     confidence_score  |-> None,
     ocr_confidence    |-> None,
     llm_enhanced      |-> FALSE,
     ocr_text          |-> NoText,
     handwriting_confidence |-> None]

\* The name bound to nothing yet.
Unbound == ExtractedPrescription("<unbound>")

\* Bug variant: the confidence fields carry no range constraint.
ConfidenceOk_Unchecked(c) == TRUE

\* Field(ge=0.0, le=1.0) on an Optional[float].
ConfidenceOk(c) == c = None \/ (0 <= c /\ c <= 100)

\* A JSON object of a remote response: every key is optional ("absent" for a
\* missing string key, None for a missing number, NoSignature for a missing
\* object).  A medication item is MedicationItem(n), n = "absent" if the key is
\* missing.
RawJson(dt, pt, meds, sig, cs) ==
    [document_type |-> dt, prescription_type |-> pt, medications |-> meds,
     doctor_signature |-> sig, confidence_score |-> cs, ocr_confidence |-> None,
     handwriting_confidence |-> None]

\* The object with a handwriting_analysis whose ocr_confidence is c.
WithHandwriting(j, c) == [j EXCEPT !.handwriting_confidence = c]

\* MedicationItem(name=...): the optional fields default to None.
MedicationItem(name) == [name |-> name, dosage |-> "None", frequency |-> "None"]

Amox == MedicationItem("Amoxicillin")

JsonObjects ==
    { RawJson("absent", "absent", <<>>, NoSignature, None),
      RawJson("prescription", "absent", <<>>, NoSignature, None),
      RawJson("prescription", "printed", <<Amox>>, SignatureInfo(TRUE, 90), 85),
      RawJson("prescription", "handwritten", <<Amox>>, SignatureInfo(FALSE, None), None),
      RawJson("unknown", "absent", <<Amox>>, SignatureInfo(TRUE, None), None),
      RawJson("unknown", "absent", <<>>, NoSignature, None),
      RawJson("prescription", "absent", <<>>, NoSignature, 150),
      RawJson("prescription", "absent", <<MedicationItem("absent")>>, NoSignature, None),
      RawJson("prescription", "absent", <<MedicationItem(" ")>>, NoSignature, None),
      RawJson("prescription", "bogus", <<>>, NoSignature, None),
      RawJson("prescription", "absent", <<>>, SignatureInfo(TRUE, 150), None),
      WithHandwriting(RawJson("prescription", "absent", <<>>, NoSignature, None), 40),
      WithHandwriting(RawJson("prescription", "absent", <<Amox>>, NoSignature, None), 150) }

\* pydantic validation of ExtractedPrescription(**raw_json): True iff no
\* ValidationError is raised.
Validates(j) ==
    /\ j.prescription_type \in PrescriptionTypes \cup {"absent"}
    /\ \A i \in 1..Len(j.medications) : j.medications[i].name # "absent"
    /\ ConfidenceOk(j.confidence_score)
    /\ ConfidenceOk(j.ocr_confidence)
    /\ ConfidenceOk(j.doctor_signature.confidence)
    /\ ConfidenceOk(j.handwriting_confidence)

\* The record pydantic builds from a validated object (defaults filled in).
FromJson(j) ==
    [document_type     |-> IF j.document_type = "absent" THEN "prescription"
                           ELSE j.document_type,
     prescription_type |-> IF j.prescription_type = "absent" THEN "None"
                           ELSE j.prescription_type,
     medications       |-> j.medications,
     doctor_signature  |-> j.doctor_signature,
     extraction_method |-> "None",
     confidence_score  |-> j.confidence_score,
     ocr_confidence    |-> j.ocr_confidence,
     llm_enhanced      |-> FALSE,
     ocr_text          |-> NoText,
     handwriting_confidence |-> j.handwriting_confidence]

(***************************************************************************)
(* Remote responses.  kind "raise": the API call raised.  kind "text": the  *)
(* call returned text; fence / brace say whether the text holds a fenced    *)
(* block / a brace-delimited span and whether json.loads accepts it.  A     *)
(* fenced block holds braces, so a text with a fence has a brace span.      *)
(***************************************************************************)
Parts == {"none", "good", "bad"}

Response(kind, fence, brace, obj) ==
    [kind |-> kind, fence |-> fence, brace |-> brace, obj |-> obj]

EmptyObject == RawJson("absent", "absent", <<>>, NoSignature, None)

Responses ==
    { Response("raise", "none", "none", EmptyObject) }
    \cup { Response("text", f, b, o) : f \in Parts, b \in Parts, o \in JsonObjects }

RealResponses == { r \in Responses : r.fence # "none" => r.brace # "none" }

\* extract_json_from_response: [ok, obj]; ok = FALSE when it raises.
extract_json_from_response(r) ==
    IF r.fence # "none"
    THEN [ok |-> r.fence = "good", obj |-> r.obj]
    ELSE IF r.brace # "none"
         THEN [ok |-> r.brace = "good", obj |-> r.obj]
         ELSE [ok |-> FALSE, obj |-> r.obj]

(***************************************************************************)
(* LLMExtractor.extract: one attempt; never raises.                         *)
(***************************************************************************)
\* An exception is raised inside the try block of extract: by the API call,
\* by extract_json_from_response or by validation.
ExtractRaises(r) ==
    \/ r.kind = "raise"
    \/ ~extract_json_from_response(r).ok
    \/ ~Validates(extract_json_from_response(r).obj)

\* The ValidationError branch (lines 237-241) is the one taken.
ExtractInvalid(r) ==
    /\ r.kind = "text"
    /\ extract_json_from_response(r).ok
    /\ ~Validates(extract_json_from_response(r).obj)

\* Bug variant: the except branches return a record typed "prescription".
extract_FailsAsPrescription(r) ==
    IF ExtractRaises(r) THEN ExtractedPrescription("prescription")
    ELSE FromJson(extract_json_from_response(r).obj)

extract(r) ==
    IF ExtractRaises(r) THEN ExtractedPrescription("unknown")
    ELSE FromJson(extract_json_from_response(r).obj)

(***************************************************************************)
(* LLMExtractor.extract_with_retry, pieces of the loop                      *)
(***************************************************************************)
\* Bug variant: the loop never recognises a successful attempt.
Succeeded_Never(doc) == FALSE

\* line 274: the attempt counts as successful
Succeeded(doc) == doc.document_type # "unknown"

\* Bug variant: range(max_retries).
RangeEnd_OffByOne(n) == n

\* Bug variant: total_time = processing_time.
Accumulate_Overwrites(total, processing_time) == processing_time

\* line 271: total_time += processing_time
Accumulate(total, processing_time) == total + processing_time

\* line 268: range(max_retries + 1)
RangeEnd(n) == n + 1

(***************************************************************************)
(* VisionExtractor                                                          *)
(***************************************************************************)
\* The record both except-branches of extract_from_image return.
VisionFailure ==
    [ExtractedPrescription("prescription") EXCEPT
        !.extraction_method = "llm_vision", !.llm_enhanced = TRUE]

\* extract_from_image: encode_image raises when the file is missing; every
\* exception ends in VisionFailure.
\* lines 279-282: the keys added to raw_json (`if ocr_confidence:` is false
\* for 0.0); extraction_method and llm_enhanced are set on the record below.
VisionRaw(obj, conf) ==
    IF conf # 0 THEN [obj EXCEPT !.ocr_confidence = conf] ELSE obj

\* An exception is raised inside the try block of extract_from_image.
VisionRaises(path, conf, r) ==
    \/ ~path.exists
    \/ r.kind = "raise"
    \/ ~extract_json_from_response(r).ok
    \/ ~Validates(VisionRaw(extract_json_from_response(r).obj, conf))

\* The ValidationError branch (lines 298-305) is the one taken.
VisionInvalid(path, conf, r) ==
    /\ path.exists
    /\ r.kind = "text"
    /\ extract_json_from_response(r).ok
    /\ ~Validates(VisionRaw(extract_json_from_response(r).obj, conf))

extract_from_image(path, conf, r) ==
    IF VisionRaises(path, conf, r) THEN VisionFailure
    ELSE [FromJson(VisionRaw(extract_json_from_response(r).obj, conf)) EXCEPT
             !.extraction_method = "llm_vision", !.llm_enhanced = TRUE]

\* JSON objects of a signature response.
SignatureObjects ==
    { NoSignature,                  \* {} : every key missing
      SignatureInfo(TRUE, 90),
      SignatureInfo(FALSE, None),
      SignatureInfo(TRUE, 150),
      NamedSignature(TRUE, 80, "Dr. A"),
      NamedSignature(TRUE, 150, "Dr. A") }

SignatureResponses ==
    { Response("raise", "none", "none", NoSignature) }
    \cup { r \in { Response("text", f, b, o) :
                      f \in Parts, b \in Parts, o \in SignatureObjects } :
           r.fence # "none" => r.brace # "none" }

\* An exception is raised inside the try block of analyze_signature_only: by
\* encode_image, the API call, extract_json_from_response or SignatureInfo(**).
SignatureRaises(path, r) ==
    \/ ~path.exists
    \/ r.kind = "raise"
    \/ ~extract_json_from_response(r).ok
    \/ ~ConfidenceOk(extract_json_from_response(r).obj.confidence)

\* Bug variant: a response that fails validation keeps its is_present.
analyze_signature_KeepsPartial(path, r) ==
    IF ~path.exists \/ r.kind = "raise" \/ ~extract_json_from_response(r).ok
    THEN SignatureInfo(FALSE, None)
    ELSE IF ~ConfidenceOk(extract_json_from_response(r).obj.confidence)
    THEN SignatureInfo(extract_json_from_response(r).obj.is_present, None)
    ELSE [extract_json_from_response(r).obj EXCEPT !.some = TRUE]

\* analyze_signature_only: every exception ends in SignatureInfo(is_present=False).
analyze_signature_only(path, r) ==
    IF SignatureRaises(path, r) THEN SignatureInfo(FALSE, None)
    ELSE [extract_json_from_response(r).obj EXCEPT !.some = TRUE]

(***************************************************************************)
(* OCRTextParser                                                            *)
(***************************************************************************)
MEDICATION_KEYWORDS ==
    {"mg", "ml", "vien", "tablet", "capsule", "goi", "ong", "chai",
     "ngay", "lan", "sang", "trua", "toi", "sau an", "truoc an",
     "uong", "tiem", "boi", "nho"}

KeywordCount(line) ==
    Cardinality({kw \in MEDICATION_KEYWORDS : Contains(lower(line), kw)})

\* the end of a match of ^\d+[.\)]\s* (0 if the line does not start so)
NumberMarkerEnd(line) ==
    LET j == Skip(line, 1, DigitChars) IN
    IF j > 1 /\ j <= Len(line) /\ Char(line, j) \in {".", ")"}
    THEN Skip(line, j + 1, {" "}) - 1 ELSE 0

_is_medication_line(line) ==
    \/ NumberMarkerEnd(line) > 0
    \/ Len(line) > 0 /\ Char(line, 1) \in {"-", "*"}
    \/ KeywordCount(line) >= 2

\* lines 230-232
StripMarkers(line) ==
    LET a == From(line, NumberMarkerEnd(line) + 1)
        b == IF Len(a) > 0 /\ Char(a, 1) \in {"-", "*"}
             THEN From(a, Skip(a, 2, {" "})) ELSE a
    IN strip(b)

\* the first of the words that s holds at position i ("" if none)
RECURSIVE FirstWordAt(_, _, _)
FirstWordAt(s, i, words) ==
    IF words = <<>> THEN ""
    ELSE IF StartsWith(s, i, Head(words)) THEN Head(words)
    ELSE FirstWordAt(s, i, Tail(words))

\* \d+\s*(?:w1|w2|...) matched at position i: the position after the match (0 if no match)
NumberThenWord(s, i, words) ==
    LET j == Skip(s, i, DigitChars)
        k == Skip(s, j, {" "})
        w == FirstWordAt(s, k, words)
    IN IF j > i /\ w # "" THEN k + Len(w) ELSE 0

\* re.search: the least of the positions where the pattern matches (0 if none)
LeastPosition(found) ==
    IF found = {} THEN 0
    ELSE CHOOSE i \in found : \A j \in found : i <= j

DosageUnits == <<"mg", "ml", "g", "mcg", "iu">>

\* line 244: re.search(r"(\d+\s*(?:mg|ml|g|mcg|iu))", line, re.IGNORECASE)
Dosage(line) ==
    LET l == lower(line)
        i == LeastPosition({p \in 1..Len(l) :
                                NumberThenWord(l, p, DosageUnits) > 0})
    IN IF i = 0 THEN "None"
       ELSE SubSeq(line, i, NumberThenWord(l, i, DosageUnits) - 1)

\* the five freq_patterns, lines 254-260: does pattern n match the
\* lower-cased line l at position i
FreqMatchAt(l, n, i) ==
    CASE n = 1 ->
           /\ StartsWith(l, i, "ngay")
           /\ LET j == Skip(l, i + 4, {" "})
                  k == IF StartsWith(l, j, "uong")
                       THEN Skip(l, j + 4, {" "}) ELSE j
              IN \/ NumberThenWord(l, k, <<"lan", "vien">>) > 0
                 \/ NumberThenWord(l, j, <<"lan", "vien">>) > 0
      [] n = 2 ->
           /\ StartsWith(l, i, "sang")
           /\ NumberThenWord(l, Skip(l, i + 4, {" "}), <<"vien">>) > 0
      [] n = 3 ->
           /\ FirstWordAt(l, i, <<"sang", "trua", "toi">>) # ""
           /\ Contains(From(l, i + Len(FirstWordAt(l, i, <<"sang", "trua", "toi">>))),
                       "vien")
      [] n = 4 -> StartsWith(l, i, "sau an")
      [] n = 5 -> StartsWith(l, i, "truoc an")

\* re.search(pattern n): every pattern ends in [^\n]*, so a match runs to
\* the end of the line; group(1).strip()
FreqMatch(line, n) ==
    LET l == lower(line)
        i == LeastPosition({p \in 1..Len(l) : FreqMatchAt(l, n, p)})
    IN IF i = 0 THEN "None" ELSE strip(From(line, i))

\* lines 261-265: the first pattern of the list that matches
RECURSIVE FirstFreq(_, _)
FirstFreq(line, n) ==
    IF n > 5 THEN "None"
    ELSE LET frequency == FreqMatch(line, n) IN
         IF frequency # "None" THEN frequency ELSE FirstFreq(line, n + 1)

Frequency(line) == FirstFreq(line, 1)

\* lines 267-278
CleanName(line, dosage, frequency) ==
    LET a == IF dosage # "None" THEN replace(line, dosage) ELSE line
        b == IF frequency # "None" THEN replace(a, frequency) ELSE a
        c == strip(CollapseSpaces(b))
        d == RStripFrom(c, {",", " "})
    IN IF Len(d) < 2 THEN line ELSE d

\* _parse_medication_line: <<>> for None, else a one-item sequence.
_parse_medication_line(raw) ==
    LET line == StripMarkers(raw)
        dosage == Dosage(line)
        frequency == Frequency(line)
    IN IF Len(line) < 3 THEN <<>>
       ELSE <<[name      |-> CleanName(line, dosage, frequency),
               dosage    |-> dosage,
               frequency |-> frequency]>>

\* The test a stripped line must pass: non-blank and _is_medication_line in
\* the first loop (lines 189-193), any keyword in the second (line 202).
Keeps(line, pass) ==
    IF pass = 1 THEN Len(line) > 0 /\ _is_medication_line(line)
    ELSE KeywordCount(line) >= 1

RECURSIVE ParseLines(_, _)
ParseLines(lines, pass) ==
    IF lines = <<>> THEN <<>>
    ELSE (IF Keeps(strip(Head(lines)), pass)
          THEN _parse_medication_line(strip(Head(lines)))
          ELSE <<>>)
         \o ParseLines(Tail(lines), pass)

_extract_medications(text) ==
    LET medications == ParseLines(text, 1) IN
    IF medications = <<>> THEN ParseLines(text, 2) ELSE medications

\* Bug variant: the regex record leaves extraction_method unset.
parse_NoMethod(text, conf) ==
    [ExtractedPrescription("prescription") EXCEPT
        !.medications = ParseLines(text, 1),
        !.confidence_score = conf,
        !.ocr_confidence = conf]

\* lines 112-117 of parse
ParserType(conf) ==
    IF conf < HandwrittenBelow THEN "handwritten"
    ELSE IF conf < MixedBelow THEN "mixed" ELSE "printed"

\* Bug variant: a text without medication lines is a failure.
parse_FailsOnEmpty(text, conf) ==
    IF _extract_medications(text) = <<>> THEN ExtractedPrescription("unknown")
    ELSE [ExtractedPrescription("prescription") EXCEPT
             !.prescription_type = ParserType(conf),
             !.medications = _extract_medications(text),
             !.extraction_method = "ocr_only",
             !.confidence_score = conf,
             !.ocr_confidence = conf,
             !.ocr_text = text]

parse(text, conf) ==
    [document_type     |-> "prescription",
     prescription_type |-> ParserType(conf),
     medications       |-> _extract_medications(text),
     doctor_signature  |-> NoSignature,
     extraction_method |-> "ocr_only",
     confidence_score  |-> conf,
     ocr_confidence    |-> conf,
     llm_enhanced      |-> FALSE,
     ocr_text          |-> text,
     handwriting_confidence |-> None]

(***************************************************************************)
(* OCR engine (extraction/ocr.py): text and confidence in [0,1]; an         *)
(* unreadable image gives confidence 0 and empty text.                      *)
(***************************************************************************)
extract_with_fallback(path) ==
    IF path.exists THEN OcrTexts \X Confidences ELSE {<<(<<>>), 0>>}

\* A missing input may also end the engine with the ImageNotFound error.
OcrErrors(path) == IF path.exists THEN {} ELSE {"ImageNotFound"}

(***************************************************************************)
(* PrescriptionProcessor                                                    *)
(***************************************************************************)
\* str.lower() on a word fragment
Lower(w) == IF w = "Print" THEN "print" ELSE w

\* Path(image_path).parent.name.lower()
ParentFolder(path) == {Lower(w) : w \in path.folder}

\* Bug variant: <= at both breakpoints.
Infer_Inclusive(conf) ==
    IF conf <= HandwrittenBelow THEN "handwritten"
    ELSE IF conf <= MixedBelow THEN "mixed"
    ELSE "printed"

\* Bug variant: the first two results exchanged.
Infer_Swapped(conf) ==
    IF conf < HandwrittenBelow THEN "mixed"
    ELSE IF conf < MixedBelow THEN "handwritten"
    ELSE "printed"

\* lines 78-84: the type inferred from the confidence
InferFromConfidence(conf) ==
    IF conf < HandwrittenBelow THEN "handwritten"
    ELSE IF conf < MixedBelow THEN "mixed"
    ELSE "printed"

\* Bug variant: the confidence is consulted before the folder name.
classify_ConfidenceFirst(path, conf) ==
    IF conf < HandwrittenBelow THEN "handwritten"
    ELSE IF "handwrit" \in ParentFolder(path) THEN "handwritten"
    ELSE IF "print" \in ParentFolder(path) THEN "printed"
    ELSE IF "mixed" \in ParentFolder(path) THEN "mixed"
    ELSE IF "screen" \in ParentFolder(path) \/ "digital" \in ParentFolder(path)
         THEN "digital"
    ELSE IF conf < MixedBelow THEN "mixed"
    ELSE "printed"

classify_prescription_type(path, conf) ==
    LET parent_folder == ParentFolder(path) IN
    IF "handwrit" \in parent_folder THEN "handwritten"
    ELSE IF "print" \in parent_folder THEN "printed"
    ELSE IF "mixed" \in parent_folder THEN "mixed"
    ELSE IF "screen" \in parent_folder \/ "digital" \in parent_folder THEN "digital"
    ELSE InferFromConfidence(conf)

\* Bug variant: a mixed document above the threshold needs no vision.
needs_vision_MixedByThreshold(conf, ptype) ==
    ptype = "handwritten" \/ conf < HANDWRITING_CONFIDENCE_THRESHOLD

\* Bug variant: the confidence threshold rule is missing.
needs_vision_NoThreshold(conf, ptype) == ptype \in {"handwritten", "mixed"}

needs_vision_enhancement(conf, ptype) ==
    IF ptype = "handwritten" THEN TRUE
    ELSE IF ptype = "mixed" THEN TRUE
    ELSE IF conf < HANDWRITING_CONFIDENCE_THRESHOLD THEN TRUE
    ELSE FALSE

\* Bug variant: the override is ignored.
UseVision_IgnoresForce(force, conf, ptype) ==
    needs_vision_enhancement(conf, ptype)

\* line 171
UseVision(force, conf, ptype) == force \/ needs_vision_enhancement(conf, ptype)

\* Bug variants: the text branch taken whether or not the extractor exists;
\* the regex branch not nested under the else of the vision branch.
TakesText_IgnoresAvailability(use_vision, v, t) == ~(use_vision /\ v)
TakesRegex_NoElse(use_vision, v, t) == ~t

\* The three branches of stage 2 (lines 173, 198-201, 223).
TakesVision(use_vision, v, t) == use_vision /\ v
TakesText(use_vision, v, t)   == ~(use_vision /\ v) /\ t
TakesRegex(use_vision, v, t)  == ~(use_vision /\ v) /\ ~t

\* Per document: invocations of each strategy, of the remote APIs, and the
\* primary attempts that ended in an except branch.
NoCalls ==
    [vision |-> 0, llm_text |-> 0, regex |-> 0, signature |-> 0, remote |-> 0,
     failed |-> 0, invalid |-> 0, sig_failed |-> 0]

\* Bug variant: the entry is put in front of the list.
AppendStage_InFront(stages, stage) == <<stage>> \o stages

\* metadata["processing_stages"].append({"stage": ...})
AppendStage(stages, stage) == Append(stages, stage)

NoMetadata ==
    [vision_used |-> FALSE, llm_text_used |-> FALSE, extraction_method |-> "None",
     processing_stages |-> <<>>, final_confidence |-> None]

TypeOK ==
    /\ vision \in BOOLEAN /\ llm_text \in BOOLEAN
    /\ op \in {"none", "process", "retry", "batch", "json"}
    /\ pc \in {"idle", "stage1", "classify", "stage2", "stage3", "done",
               "raised", "loop", "returned", "batch_loop", "batch_returned",
               "json_returned"}
    /\ index \in 0..(MaxBatch + 1)
    /\ Len(results) <= MaxBatch + 1
    /\ force_vision \in BOOLEAN
    /\ ocr_confidence \in Confidences \cup {None}
    /\ prescription_type \in PrescriptionTypes \cup {"None"}
    /\ max_retries \in 0..MaxRetries
    /\ attempt \in 0..(MaxRetries + 1)

Init ==
    /\ vision \in BOOLEAN
    /\ llm_text \in BOOLEAN
    /\ op = "none"
    /\ pc = "idle"
    /\ image_path = [folder |-> {}, exists |-> TRUE]
    /\ force_vision = FALSE
    /\ ocr_text = <<>>
    /\ ocr_confidence = None
    /\ prescription_type = "None"
    /\ prescription = Unbound
    /\ metadata = NoMetadata
    /\ calls = NoCalls
    /\ max_retries = 0
    /\ attempt = 0
    /\ total_time = 0
    /\ log = <<>>
    /\ document = Unbound
    /\ result = Unbound
    /\ image_paths = <<>>
    /\ index = 0
    /\ results = <<>>
    /\ response = Response("raise", "none", "none", EmptyObject)
    /\ json_result = [ok |-> FALSE, obj |-> EmptyObject]

\* Bug variant: the regex branch leaves the initial value.
MetadataMethod_RegexKeepsInitial(strategy) ==
    CASE strategy = "vision"   -> "ocr_plus_llm_vision"
      [] strategy = "llm_text" -> "ocr_plus_llm_text"
      [] strategy = "regex"    -> "ocr_only"

\* metadata["extraction_method"] = ... (lines 185, 208, 229)
MetadataMethod(strategy) ==
    CASE strategy = "vision"   -> "ocr_plus_llm_vision"
      [] strategy = "llm_text" -> "ocr_plus_llm_text"
      [] strategy = "regex"    -> "ocr_only_regex"

\* Bug variant: a type the strategy gave is kept.
SetType_KeepsGiven(p, ptype) ==
    IF p.prescription_type = "None" THEN [p EXCEPT !.prescription_type = ptype]
    ELSE p

\* prescription.prescription_type = prescription_type (lines 192, 216, 227)
SetType(p, ptype) == [p EXCEPT !.prescription_type = ptype]

\* process(image_path, force_vision) is entered: lines 131-143.
ProcessCall ==
    /\ op = "none"
    /\ \E f \in Folders, e \in BOOLEAN, force \in BOOLEAN :
          /\ image_path' = [folder |-> f, exists |-> e]
          /\ force_vision' = force
    /\ op' = "process"
    /\ pc' = "stage1"
    /\ metadata' = [NoMetadata EXCEPT !.extraction_method = "ocr_only"]
    /\ UNCHANGED <<vision, llm_text, ocr_text, ocr_confidence, prescription_type,
                   prescription, calls>>
    /\ UNCHANGED retryVars
    /\ UNCHANGED batchVars
    /\ UNCHANGED jsonVars

\* Stage 1, lines 145-164.
Stage1OCR ==
    /\ op = "process" /\ pc = "stage1"
    /\ \E out \in extract_with_fallback(image_path) :
          /\ ocr_text' = out[1]
          /\ ocr_confidence' = out[2]
    /\ metadata' = [metadata EXCEPT
                       !.processing_stages = AppendStage(@, "ocr")]
    /\ pc' = "classify"
    /\ UNCHANGED <<vision, llm_text, op, image_path, force_vision,
                   prescription_type, prescription, calls>>
    /\ UNCHANGED retryVars
    /\ UNCHANGED batchVars
    /\ UNCHANGED jsonVars

\* Line 150 raises: nothing in process catches it.
Stage1Raise ==
    /\ op = "process" /\ pc = "stage1"
    /\ OcrErrors(image_path) # {}
    /\ pc' = "raised"
    /\ UNCHANGED <<vision, llm_text, op>>
    /\ UNCHANGED procVars
    /\ UNCHANGED retryVars
    /\ UNCHANGED batchVars
    /\ UNCHANGED jsonVars

\* lines 166-168
Classify ==
    /\ op = "process" /\ pc = "classify"
    /\ prescription_type' = classify_prescription_type(image_path, ocr_confidence)
    /\ pc' = "stage2"
    /\ UNCHANGED <<vision, llm_text, op, image_path, force_vision, ocr_text,
                   ocr_confidence, prescription, metadata, calls>>
    /\ UNCHANGED retryVars
    /\ UNCHANGED batchVars
    /\ UNCHANGED jsonVars

use_vision == UseVision(force_vision, ocr_confidence, prescription_type)

\* Stage 2, vision branch: lines 173-196, and line 239.
Stage2Vision ==
    /\ op = "process" /\ pc = "stage2"
    /\ TakesVision(use_vision, vision, llm_text)
    /\ \E r \in RealResponses :
          /\ prescription' =
              [SetType(extract_from_image(image_path, ocr_confidence, r),
                       prescription_type) EXCEPT
                  !.extraction_method = "ocr_plus_llm",
                  !.ocr_confidence = ocr_confidence,
                  !.llm_enhanced = TRUE,
                  !.ocr_text = ocr_text]
          /\ calls' = [calls EXCEPT
                 !.vision = @ + 1,
                 !.remote = @ + (IF image_path.exists THEN 1 ELSE 0),
                 !.failed = @ + (IF VisionRaises(image_path, ocr_confidence, r)
                                 THEN 1 ELSE 0),
                 !.invalid = @ + (IF VisionInvalid(image_path, ocr_confidence, r)
                                  THEN 1 ELSE 0)]
    /\ metadata' = [metadata EXCEPT
                       !.vision_used = TRUE,
                       !.extraction_method = MetadataMethod("vision"),
                       !.processing_stages = AppendStage(@, "vision")]
    /\ pc' = "stage3"
    /\ UNCHANGED <<vision, llm_text, op, image_path, force_vision, ocr_text,
                   ocr_confidence, prescription_type>>
    /\ UNCHANGED retryVars
    /\ UNCHANGED batchVars
    /\ UNCHANGED jsonVars

\* Stage 2, text branch: lines 201-221, and line 239.
Stage2Text ==
    /\ op = "process" /\ pc = "stage2"
    /\ TakesText(use_vision, vision, llm_text)
    /\ \E r \in RealResponses :
          /\ prescription' =
              [SetType(extract(r), prescription_type) EXCEPT
                  !.extraction_method = "ocr_plus_llm_text",
                  !.ocr_confidence = ocr_confidence,
                  !.llm_enhanced = TRUE,
                  !.ocr_text = ocr_text]
          /\ calls' = [calls EXCEPT
                 !.llm_text = @ + 1,
                 !.remote = @ + 1,
                 !.failed = @ + (IF ExtractRaises(r) THEN 1 ELSE 0),
                 !.invalid = @ + (IF ExtractInvalid(r) THEN 1 ELSE 0)]
    /\ metadata' = [metadata EXCEPT
                       !.vision_used = FALSE,
                       !.llm_text_used = TRUE,
                       !.extraction_method = MetadataMethod("llm_text"),
                       !.processing_stages = AppendStage(@, "llm_text_structuring")]
    /\ pc' = "stage3"
    /\ UNCHANGED <<vision, llm_text, op, image_path, force_vision, ocr_text,
                   ocr_confidence, prescription_type>>
    /\ UNCHANGED retryVars
    /\ UNCHANGED batchVars
    /\ UNCHANGED jsonVars

\* Stage 2, regex branch: lines 223-236, and line 239.
Stage2Regex ==
    /\ op = "process" /\ pc = "stage2"
    /\ TakesRegex(use_vision, vision, llm_text)
    /\ prescription' = [SetType(parse(ocr_text, ocr_confidence),
                                prescription_type) EXCEPT
                           !.ocr_text = ocr_text]
    /\ metadata' = [metadata EXCEPT
                       !.vision_used = FALSE,
                       !.extraction_method = MetadataMethod("regex"),
                       !.processing_stages = AppendStage(@, "ocr_parsing_regex")]
    /\ calls' = [calls EXCEPT !.regex = @ + 1]
    /\ pc' = "stage3"
    /\ UNCHANGED <<vision, llm_text, op, image_path, force_vision, ocr_text,
                   ocr_confidence, prescription_type>>
    /\ UNCHANGED retryVars
    /\ UNCHANGED batchVars
    /\ UNCHANGED jsonVars

\* line 258: prescription.confidence_score or ocr_confidence
FinalConfidence(p, conf) ==
    IF p.confidence_score = None \/ p.confidence_score = 0 THEN conf
    ELSE p.confidence_score

\* Bug variants: the stage runs although the record has a signature; the
\* stage runs although there is no vision extractor.
RunsSignatureStage_IgnoresSignature(v, p) == VISION_ALWAYS_FOR_SIGNATURES /\ v
RunsSignatureStage_IgnoresVision(v, p) ==
    VISION_ALWAYS_FOR_SIGNATURES /\ ~p.doctor_signature.some

\* line 242
RunsSignatureStage(v, p) ==
    VISION_ALWAYS_FOR_SIGNATURES /\ v /\ ~p.doctor_signature.some

\* Stage 3 taken, lines 242-253, then lines 255-268.
Stage3Signature ==
    /\ op = "process" /\ pc = "stage3"
    /\ RunsSignatureStage(vision, prescription)
    /\ \E r \in SignatureResponses :
          /\ prescription' = [prescription EXCEPT
                 !.doctor_signature = analyze_signature_only(image_path, r)]
          /\ calls' = [calls EXCEPT
                 !.signature = @ + 1,
                 !.remote = @ + (IF image_path.exists THEN 1 ELSE 0),
                 !.sig_failed = @ + (IF SignatureRaises(image_path, r)
                                     THEN 1 ELSE 0)]
    /\ metadata' = [metadata EXCEPT
                       !.processing_stages = AppendStage(@, "signature_detection"),
                       !.final_confidence =
                           FinalConfidence(prescription, ocr_confidence)]
    /\ pc' = "done"
    /\ UNCHANGED <<vision, llm_text, op, image_path, force_vision, ocr_text,
                   ocr_confidence, prescription_type>>
    /\ UNCHANGED retryVars
    /\ UNCHANGED batchVars
    /\ UNCHANGED jsonVars

\* Stage 3 not taken, then lines 255-268.
Stage3Skip ==
    /\ op = "process" /\ pc = "stage3"
    /\ ~RunsSignatureStage(vision, prescription)
    /\ metadata' = [metadata EXCEPT
                       !.final_confidence =
                           FinalConfidence(prescription, ocr_confidence)]
    /\ pc' = "done"
    /\ UNCHANGED <<vision, llm_text, op, image_path, force_vision, ocr_text,
                   ocr_confidence, prescription_type, prescription, calls>>
    /\ UNCHANGED retryVars
    /\ UNCHANGED batchVars
    /\ UNCHANGED jsonVars

(***************************************************************************)
(* LLMExtractor.extract_with_retry(ocr_text, document_type, max_retries).   *)
(* extract catches every exception itself (lines 237-246), so the except    *)
(* clause of the loop (lines 280-283) is never entered.                     *)
(***************************************************************************)
\* The JSON object of the response has a document_type key.
NamesType(r) == extract_json_from_response(r).obj.document_type # "absent"

\* lines 265-266
RetryCall ==
    /\ op = "none"
    /\ llm_text
    /\ \E n \in 0..MaxRetries : max_retries' = n
    /\ op' = "retry"
    /\ pc' = "loop"
    /\ attempt' = 0
    /\ total_time' = 0
    /\ log' = <<>>
    /\ UNCHANGED <<vision, llm_text, document, result>>
    /\ UNCHANGED procVars
    /\ UNCHANGED batchVars
    /\ UNCHANGED jsonVars

\* One iteration of the loop, lines 268-278.
RetryAttempt ==
    /\ op = "retry" /\ pc = "loop"
    /\ attempt < RangeEnd(max_retries)
    /\ \E r \in RealResponses, processing_time \in 1..MaxElapsed :
          LET doc == extract(r) IN
          /\ document' = doc
          /\ total_time' = Accumulate(total_time, processing_time)
          /\ log' = Append(log, [ok |-> doc.document_type # "unknown",
                                 time |-> processing_time,
                                 typed |-> /\ doc.document_type # "unknown"
                                           /\ NamesType(r)])
          /\ IF Succeeded(doc)
             THEN /\ result' = doc
                  /\ pc' = "returned"
                  /\ attempt' = attempt
             ELSE /\ result' = result
                  /\ pc' = "loop"
                  /\ attempt' = attempt + 1
    /\ UNCHANGED <<vision, llm_text, op, max_retries>>
    /\ UNCHANGED procVars
    /\ UNCHANGED batchVars
    /\ UNCHANGED jsonVars

\* The loop is over, lines 285-287.
RetryExhausted ==
    /\ op = "retry" /\ pc = "loop"
    /\ ~(attempt < RangeEnd(max_retries))
    /\ result' = ExtractedPrescription("unknown")
    /\ pc' = "returned"
    /\ UNCHANGED <<vision, llm_text, op, max_retries, attempt, total_time, log,
                   document>>
    /\ UNCHANGED procVars
    /\ UNCHANGED batchVars
    /\ UNCHANGED jsonVars

(***************************************************************************)
(* PrescriptionProcessor.process_batch(image_paths, force_vision).  One     *)
(* iteration of the loop is one step; the call of process inside it is      *)
(* summarised by its outcome: the error it raised, or the pair it returned. *)
(***************************************************************************)
BatchPaths ==
    {[folder |-> f, exists |-> e] : f \in {{}, {"print"}}, e \in BOOLEAN}

RECURSIVE PathLists(_)
PathLists(n) ==
    IF n = 0 THEN {<<>>}
    ELSE PathLists(n - 1) \cup
         {Append(l, p) : l \in {m \in PathLists(n - 1) : Len(m) = n - 1},
                         p \in BatchPaths}

\* metadata of a normal return carries file_path (line 138); no "error" key.
ReturnedMetadata(path) == [file_path |-> path, error |-> "None"]

\* process(path, force_vision) as its caller sees it: it raises what the OCR
\* engine raised, or returns (prescription, metadata).
ProcessOutcomes(path) ==
    {[raised |-> TRUE, error |-> err, prescription |-> Unbound] :
        err \in OcrErrors(path)}
    \cup
    {[raised |-> FALSE, error |-> "None", prescription |-> p] :
        p \in {ExtractedPrescription("prescription"),
               ExtractedPrescription("unknown")}}

\* Bug variant: a failed document leaves no entry.
BatchAppend_DropsFailed(rs, path, out) ==
    IF out.raised THEN rs
    ELSE Append(rs, <<out.prescription, ReturnedMetadata(path)>>)

\* lines 291-299: the try appends the pair, the except appends the error entry.
BatchAppend(rs, path, out) ==
    IF out.raised
    THEN Append(rs, <<ExtractedPrescription("prescription"),
                      [file_path |-> path, error |-> out.error]>>)
    ELSE Append(rs, <<out.prescription, ReturnedMetadata(path)>>)

\* lines 285-286
BatchCall ==
    /\ op = "none"
    /\ image_paths' \in PathLists(MaxBatch)
    /\ force_vision' \in BOOLEAN
    /\ index' = 0
    /\ results' = <<>>
    /\ op' = "batch"
    /\ pc' = "batch_loop"
    /\ UNCHANGED <<vision, llm_text, image_path, ocr_text, ocr_confidence,
                   prescription_type, prescription, metadata, calls>>
    /\ UNCHANGED retryVars
    /\ UNCHANGED jsonVars

\* lines 288-299, one iteration
BatchIteration ==
    /\ op = "batch" /\ pc = "batch_loop"
    /\ index < Len(image_paths)
    /\ \E out \in ProcessOutcomes(image_paths[index + 1]) :
          results' = BatchAppend(results, image_paths[index + 1], out)
    /\ index' = index + 1
    /\ UNCHANGED <<vision, llm_text, op, pc, image_paths>>
    /\ UNCHANGED procVars
    /\ UNCHANGED retryVars
    /\ UNCHANGED jsonVars

\* line 301
BatchReturn ==
    /\ op = "batch" /\ pc = "batch_loop"
    /\ index = Len(image_paths)
    /\ pc' = "batch_returned"
    /\ UNCHANGED <<vision, llm_text, op, image_paths, index, results>>
    /\ UNCHANGED procVars
    /\ UNCHANGED retryVars
    /\ UNCHANGED jsonVars

(***************************************************************************)
(* extract_json_from_response(text), called on its own: the whole function  *)
(* is one step; ok = FALSE stands for the exception it raises.              *)
(***************************************************************************)
ExtractJsonCall ==
    /\ op = "none"
    /\ \E r \in {x \in RealResponses : x.kind = "text"} :
          /\ response' = r
          /\ json_result' = extract_json_from_response(r)
    /\ op' = "json"
    /\ pc' = "json_returned"
    /\ UNCHANGED <<vision, llm_text>>
    /\ UNCHANGED procVars
    /\ UNCHANGED retryVars
    /\ UNCHANGED batchVars

Next ==
    \/ ProcessCall
    \/ Stage1OCR
    \/ Stage1Raise
    \/ Classify
    \/ Stage2Vision
    \/ Stage2Text
    \/ Stage2Regex
    \/ Stage3Signature
    \/ Stage3Skip
    \/ RetryCall
    \/ RetryAttempt
    \/ RetryExhausted
    \/ BatchCall
    \/ BatchIteration
    \/ BatchReturn
    \/ ExtractJsonCall

Spec == Init /\ [][Next]_vars

(***************************************************************************)
(* Properties                                                               *)
(***************************************************************************)
\* The primary stage of the running process call is over.
PrimaryDone == op = "process" /\ pc \in {"stage3", "done"}

\* The primary strategies that have run for the document.
StrategiesRun ==
    {st \in {"vision", "llm_text", "regex"} : calls[st] > 0}

\* The keywords the lower-cased parent folder name contains.
HintKeywords ==
    {k \in {"handwrit", "print", "mixed", "screen", "digital"} :
        \E w \in image_path.folder : Lower(w) = k}

\* The type a keyword names.
TypeNamedBy(k) ==
    CASE k = "handwrit" -> "handwritten"
      [] k = "print"    -> "printed"
      [] k = "mixed"    -> "mixed"
      [] OTHER          -> "digital"

\* The prescription type has been computed.
Classified == op = "process" /\ pc \in {"stage2", "stage3", "done"}

\* C1: for every confidence, type, override and availability, process runs
\* exactly one primary strategy out of regex parser, text-analysis and
\* image-analysis: when stage 2 is entered exactly one branch is open, and
\* once it is over exactly one strategy has run.
C1_ExactlyOnePrimary ==
    /\ (op = "process" /\ pc = "stage2") =>
          Cardinality({b \in {"vision", "llm_text", "regex"} :
              \/ b = "vision" /\ TakesVision(use_vision, vision, llm_text)
              \/ b = "llm_text" /\ TakesText(use_vision, vision, llm_text)
              \/ b = "regex" /\ TakesRegex(use_vision, vision, llm_text)}) = 1
    /\ PrimaryDone => Cardinality(StrategiesRun) = 1

C1_Witness ==
    /\ op = "process" /\ pc = "done"
    /\ force_vision /\ ~vision /\ ~llm_text
    /\ StrategiesRun = {"regex"}

\* C2: with the override set and the vision extractor available, the primary
\* strategy is image-analysis, for every confidence and every type.
C2_OverridePicksVision ==
    (PrimaryDone /\ force_vision /\ vision) => StrategiesRun = {"vision"}

C2_Witness ==
    /\ op = "process" /\ pc = "done"
    /\ force_vision /\ vision
    /\ ocr_confidence = 95 /\ prescription_type = "printed"
    /\ StrategiesRun = {"vision"}

\* C3: override off and vision available: a handwritten or mixed document,
\* and any document with OCR confidence below 0.6, goes to image-analysis;
\* confidence 0.45 without a folder hint is typed handwritten.
C3_TypeOrLowConfidencePicksVision ==
    /\ (PrimaryDone /\ ~force_vision /\ vision
          /\ (prescription_type \in {"handwritten", "mixed"}
              \/ ocr_confidence < 60))
          => StrategiesRun = {"vision"}
    /\ (Classified /\ HintKeywords = {} /\ ocr_confidence = 45)
          => prescription_type = "handwritten"

C3_Witness ==
    /\ op = "process" /\ pc = "done"
    /\ ~force_vision /\ vision
    /\ HintKeywords = {} /\ ocr_confidence = 45
    /\ prescription_type = "handwritten"
    /\ StrategiesRun = {"vision"}

\* No image-analysis rule applies: the vision extractor is unavailable, or
\* the override is off and the type is printed or digital with confidence
\* at least 0.6.
NoVisionRuleApplies ==
    \/ ~vision
    \/ /\ ~force_vision
       /\ prescription_type \in {"printed", "digital"}
       /\ ocr_confidence >= 60

\* C4: when no image-analysis rule applies, process runs text-analysis if
\* the text extractor is available and the regex parser otherwise; the regex
\* parser runs only when the text extractor is unavailable.
C4_TextElseRegex ==
    /\ (PrimaryDone /\ NoVisionRuleApplies /\ llm_text)
          => StrategiesRun = {"llm_text"}
    /\ (PrimaryDone /\ NoVisionRuleApplies /\ ~llm_text)
          => StrategiesRun = {"regex"}
    /\ (PrimaryDone /\ "regex" \in StrategiesRun) => ~llm_text
    /\ (PrimaryDone /\ "llm_text" \in StrategiesRun) => llm_text

C4_Witness ==
    /\ op = "process" /\ pc = "done"
    /\ vision /\ ~force_vision /\ ~llm_text
    /\ prescription_type = "digital" /\ ocr_confidence = 60
    /\ StrategiesRun = {"regex"}

\* C5: when the parent folder name contains a keyword, the type is the one a
\* contained keyword names, and it is the same for every OCR confidence.
C5_HintWins ==
    (Classified /\ HintKeywords # {}) =>
        /\ prescription_type \in {TypeNamedBy(k) : k \in HintKeywords}
        /\ \A c \in Confidences :
              classify_prescription_type(image_path, c) = prescription_type

C5_Witness ==
    /\ op = "process" /\ pc = "done"
    /\ image_path.folder = {"Print"}
    /\ ocr_confidence = 45
    /\ prescription_type = "printed"

\* C6: without a folder hint the type is handwritten below 0.5, mixed from
\* 0.5 to below 0.7 and printed from 0.7 on; never digital.
C6_ConfidenceBreakpoints ==
    (Classified /\ HintKeywords = {}) =>
        /\ ocr_confidence < 50 => prescription_type = "handwritten"
        /\ (50 <= ocr_confidence /\ ocr_confidence < 70)
              => prescription_type = "mixed"
        /\ ocr_confidence >= 70 => prescription_type = "printed"
        /\ prescription_type # "digital"

C6_Witness ==
    /\ op = "process" /\ pc = "done"
    /\ HintKeywords = {}
    /\ ocr_confidence = 50
    /\ prescription_type = "mixed"

\* Clarity order of the types inferred from the confidence.
Clarity(t) ==
    CASE t = "handwritten" -> 0
      [] t = "mixed"       -> 1
      [] t = "printed"     -> 2
      [] OTHER             -> 3

\* C7: without a folder hint the classifier is monotone: a lower confidence
\* never gets a clearer type than a higher one (handwritten < mixed < printed).
C7_ClassifierMonotone ==
    (Classified /\ HintKeywords = {}) =>
        \A c \in Confidences :
            /\ c < ocr_confidence =>
                  Clarity(classify_prescription_type(image_path, c))
                      <= Clarity(prescription_type)
            /\ ocr_confidence < c =>
                  Clarity(prescription_type)
                      <= Clarity(classify_prescription_type(image_path, c))

C7_Witness ==
    /\ op = "process" /\ pc = "done"
    /\ HintKeywords = {}
    /\ ocr_confidence = 69
    /\ prescription_type = "mixed"
    /\ classify_prescription_type(image_path, 70) = "printed"
    /\ classify_prescription_type(image_path, 49) = "handwritten"

\* The remote primary strategy ran and every attempt of it failed.
RemotePrimaryAlwaysFailed ==
    /\ PrimaryDone
    /\ calls.vision + calls.llm_text > 0
    /\ calls.failed = calls.vision + calls.llm_text

\* C8: a text-analysis or image-analysis primary strategy that fails on every
\* attempt has been invoked 3 times (2 retries) when the primary stage gives up.
C8_PrimaryRetried ==
    RemotePrimaryAlwaysFailed =>
        calls.vision + calls.llm_text = DefaultMaxRetries + 1

\* extract_with_retry has returned.
Returned == op = "retry" /\ pc = "returned"

\* Every attempt made so far failed.
AllFailed == \A i \in 1..Len(log) : ~log[i].ok

\* The loop runs on while it has something to do: the interpreter executes
\* the next statement and a remote call returns or raises.
FairSpec ==
    Spec /\ WF_vars(RetryAttempt) /\ WF_vars(RetryExhausted)

\* C9: extract_with_retry never makes more than max_retries + 1 attempts;
\* when every attempt fails it makes exactly max_retries + 1 of them and
\* returns the unknown-type sentinel (no line items, no signature); and every
\* call returns.
C9_AlwaysFailingRetry ==
    /\ [](op = "retry" => Len(log) <= max_retries + 1)
    /\ []((Returned /\ AllFailed) =>
            /\ Len(log) = max_retries + 1
            /\ result.document_type = "unknown"
            /\ result.medications = <<>>
            /\ ~result.doctor_signature.some)
    /\ ((op = "retry") ~> Returned)

C9_Witness ==
    /\ Returned /\ AllFailed
    /\ max_retries = 2
    /\ Len(log) = 3
    /\ result.document_type = "unknown"

\* C10: extract_with_retry stops at the first successful attempt: a success
\* in the log is its last entry, the call has returned that attempt's record
\* and the number of attempts is the index of the first success.
C10_StopsAtFirstSuccess ==
    (op = "retry" /\ ~AllFailed) =>
        /\ Returned
        /\ log[Len(log)].ok
        /\ \A i \in 1..(Len(log) - 1) : ~log[i].ok
        /\ result = document
        /\ result.document_type # "unknown"

C10_Witness ==
    /\ Returned
    /\ Len(log) = 2
    /\ ~log[1].ok /\ log[2].ok
    /\ max_retries = 3
    /\ result = document
    /\ result.medications # <<>>

\* Sum of the elapsed times of the attempts in a log.
RECURSIVE SumTimes(_)
SumTimes(l) == IF l = <<>> THEN 0 ELSE Head(l).time + SumTimes(Tail(l))

\* C11: the elapsed time extract_with_retry holds, and returns, is the sum of
\* the elapsed times of exactly the attempts made: of all max_retries + 1
\* attempts when every attempt fails, of the failed attempts and the
\* successful one otherwise.
C11_ElapsedIsSumOfAttempts ==
    /\ op = "retry" => total_time = SumTimes(log)
    /\ (Returned /\ AllFailed) => Len(log) = max_retries + 1
    /\ (Returned /\ ~AllFailed) =>
          /\ log[Len(log)].ok
          /\ \A i \in 1..(Len(log) - 1) : ~log[i].ok

C11_Witness ==
    /\ Returned /\ AllFailed
    /\ max_retries = 2
    /\ Len(log) = 3
    /\ log[1].time = 1 /\ log[2].time = 2 /\ log[3].time = 2
    /\ total_time = 5

\* The primary stage has just returned its record.
PrimaryReturned == op = "process" /\ pc = "stage3"

\* The minimal record of a failed extraction.
IsUnknownSentinel(p) ==
    /\ p.document_type = "unknown"
    /\ p.medications = <<>>
    /\ ~p.doctor_signature.some

\* C12: when the remote primary strategy failed (service error, no JSON or
\* validation failure), the record the primary stage returns has
\* document_type "unknown", no line items and no signature, for text-analysis
\* and for image-analysis alike.
C12_FailureGivesUnknownSentinel ==
    (PrimaryReturned /\ RemotePrimaryAlwaysFailed)
        => IsUnknownSentinel(prescription)

\* The text-analysis half of C12, which the code satisfies.
C12_TextHalf ==
    (PrimaryReturned /\ RemotePrimaryAlwaysFailed /\ calls.llm_text > 0)
        => IsUnknownSentinel(prescription)

\* process has returned its record.
ProcessDone == op = "process" /\ pc = "done"

\* C13 as stated: every record process returns with document_type "unknown"
\* has no line items and no signature.
C13_UnknownIsEmpty ==
    (ProcessDone /\ prescription.document_type = "unknown") =>
        /\ prescription.medications = <<>>
        /\ ~prescription.doctor_signature.some

\* C13 amended: a record process returns after a failed text-analysis attempt
\* has document_type "unknown" and no line items; it has no signature when
\* there is no vision extractor, and otherwise the SignatureInfo the signature
\* stage attached.
C13_FailedTextRecord ==
    (ProcessDone /\ calls.llm_text > 0 /\ calls.failed > 0) =>
        /\ prescription.document_type = "unknown"
        /\ prescription.medications = <<>>
        /\ ~vision => (~prescription.doctor_signature.some /\ calls.signature = 0)
        /\ vision => (prescription.doctor_signature.some /\ calls.signature = 1)

C13_Witness ==
    /\ ProcessDone
    /\ calls.llm_text = 1 /\ calls.failed = 1
    /\ vision
    /\ prescription.document_type = "unknown"
    /\ prescription.doctor_signature.is_present
    /\ calls.signature = 1

\* C14: when the record of the primary stage carries a SignatureInfo, process
\* does not call analyze_signature_only and returns that SignatureInfo.
C14_SignatureKept ==
    [][(PrimaryReturned /\ prescription.doctor_signature.some) =>
          /\ pc' = "done"
          /\ calls'.signature = calls.signature
          /\ calls'.remote = calls.remote
          /\ prescription' = prescription]_vars

C14_Witness ==
    /\ ProcessDone
    /\ vision
    /\ calls.signature = 0
    /\ prescription.doctor_signature.some
    /\ prescription.doctor_signature.is_present

\* C15 as stated: whatever the primary outcome, a record whose signature is
\* empty after the primary stage gets the signature stage exactly once and is
\* returned with a SignatureInfo.
C15_SignatureAlwaysAttempted ==
    [][(PrimaryReturned /\ ~prescription.doctor_signature.some) =>
          /\ pc' = "done"
          /\ calls'.signature = calls.signature + 1
          /\ prescription'.doctor_signature.some]_vars

\* C15 amended: that holds when the vision extractor is available, for every
\* primary strategy and for a failed extraction; without a vision extractor
\* the stage is skipped and the record is returned without a signature.
C15_SignatureAttemptedIfVision ==
    /\ [][(PrimaryReturned /\ ~prescription.doctor_signature.some /\ vision) =>
             /\ pc' = "done"
             /\ calls.signature = 0 /\ calls'.signature = 1
             /\ prescription'.doctor_signature.some]_vars
    /\ [][(PrimaryReturned /\ ~prescription.doctor_signature.some /\ ~vision) =>
             /\ pc' = "done"
             /\ calls'.signature = 0
             /\ prescription' = prescription]_vars
    /\ [](ProcessDone => calls.signature <= 1)

C15_Witness ==
    /\ ProcessDone
    /\ vision
    /\ calls.regex = 1
    /\ calls.signature = 1
    /\ prescription.doctor_signature.some

\* The record with every field except doctor_signature.
Content(p) == [p EXCEPT !.doctor_signature = NoSignature]

\* C16: a failure inside the signature stage (missing image, remote error,
\* no JSON, invalid SignatureInfo) gives SignatureInfo(is_present = False)
\* with every other field unset, and process returns the document with its
\* primary-stage content unchanged.
C16_SignatureFailureIsSilent ==
    [][(PrimaryReturned /\ calls'.sig_failed = calls.sig_failed + 1) =>
          /\ pc' = "done"
          /\ prescription'.doctor_signature =
                [some |-> TRUE, is_present |-> FALSE, confidence |-> None,
                 signer_name |-> "None"]
          /\ Content(prescription') = Content(prescription)]_vars

C16_Witness ==
    /\ ProcessDone
    /\ calls.sig_failed = 1
    /\ image_path.exists
    /\ prescription.medications # <<>>
    /\ prescription.doctor_signature.some
    /\ ~prescription.doctor_signature.is_present

PrimaryStages == {"vision", "llm_text_structuring", "ocr_parsing_regex"}

\* processing_stages at each position of process.
StagesInOrder ==
    LET stages == metadata.processing_stages IN
    op = "process" =>
        \/ /\ pc \in {"stage1", "raised"}
           /\ stages = <<>> /\ prescription = Unbound
        \/ /\ pc \in {"classify", "stage2"}
           /\ stages = <<"ocr">> /\ prescription = Unbound
        \/ /\ pc = "stage3"
           /\ Len(stages) = 2 /\ stages[1] = "ocr" /\ stages[2] \in PrimaryStages
           /\ calls.signature = 0
        \/ /\ pc = "done"
           /\ Len(stages) \in {2, 3}
           /\ stages[1] = "ocr" /\ stages[2] \in PrimaryStages
           /\ Len(stages) = 3 =>
                 (stages[3] = "signature_detection" /\ calls.signature = 1)
           /\ Len(stages) = 2 => calls.signature = 0

\* The primary strategy gave its failure record.
PrimaryFailed == PrimaryReturned /\ calls.failed > 0

FairProcessSpec ==
    Spec /\ WF_vars(Stage3Signature) /\ WF_vars(Stage3Skip)

\* C17: processing_stages holds "ocr" first, then exactly one primary-stage
\* entry, then at most one "signature_detection" entry; once the primary
\* stage has returned, the signature changes only in the step of the
\* signature stage that ends process; and a failed primary extraction goes on
\* to the signature check and a normal return.
C17_StagesInOrder ==
    /\ []StagesInOrder
    /\ [][(PrimaryDone /\ prescription'.doctor_signature
                             # prescription.doctor_signature) =>
             /\ pc = "stage3" /\ pc' = "done"
             /\ calls'.signature = calls.signature + 1]_vars
    /\ (PrimaryFailed ~> ProcessDone)

C17_Witness ==
    /\ ProcessDone
    /\ calls.failed = 1
    /\ metadata.processing_stages =
          <<"ocr", "llm_text_structuring", "signature_detection">>
    /\ prescription.document_type = "unknown"

\* C18: process_batch gives one entry per input path in input order: entry i
\* names path i, an entry is an error entry (the path and the error text)
\* exactly for a document whose processing raised, each iteration appends one
\* entry, and the returned list is as long as the input.
C18_BatchNeverAborts ==
    /\ [](op = "batch" =>
            /\ Len(results) = index
            /\ index <= Len(image_paths)
            /\ \A i \in 1..Len(results) :
                  /\ results[i][2].file_path = image_paths[i]
                  /\ results[i][2].error # "None" =>
                        /\ results[i][2].error \in OcrErrors(image_paths[i])
                        /\ results[i][1] = ExtractedPrescription("prescription")
            /\ pc = "batch_returned" => Len(results) = Len(image_paths))
    /\ [][(op = "batch" /\ index' # index) =>
             /\ index' = index + 1
             /\ Len(results') = Len(results) + 1
             /\ SubSeq(results', 1, Len(results)) = results]_vars

C18_Witness ==
    /\ op = "batch" /\ pc = "batch_returned"
    /\ Len(image_paths) = 2
    /\ Len(results) = 2
    /\ results[1][2].error = "ImageNotFound"
    /\ results[2][2].error = "None"
    /\ results[2][2].file_path = image_paths[2]

\* The names the design gives to the extraction methods, with combined forms.
EnumeratedMethods ==
    LET base == {"local_fallback", "remote_text_structuring", "remote_vision"} IN
    base \cup {"local_fallback+remote_vision",
               "remote_text_structuring+remote_vision"}

ConfidenceFields(p) ==
    {p.confidence_score, p.ocr_confidence, p.doctor_signature.confidence,
     p.handwriting_confidence}

InUnitRange(p) == \A c \in ConfidenceFields(p) : c = None \/ c \in 0..100

\* The responses whose JSON object has confidence_score = 1.5.
OverconfidentResponses ==
    {r \in RealResponses :
        /\ r.kind = "text"
        /\ extract_json_from_response(r).ok
        /\ extract_json_from_response(r).obj.confidence_score = 150}

\* C20: every confidence field of a record returned by extract, by
\* extract_from_image, by the regex parser or by process is absent or within
\* [0,1]; a response whose confidence_score is 1.5 fails validation and
\* gives the strategy's failure record, which stores no confidence_score.
C20_ConfidencesInUnitRange ==
    /\ PrimaryDone => InUnitRange(prescription)
    /\ op = "retry" =>
          /\ attempt > 0 => InUnitRange(document)
          /\ Returned => InUnitRange(result)
    /\ (PrimaryDone /\ calls.invalid > 0) =>
          /\ calls.failed > 0
          /\ prescription.confidence_score = None
          /\ prescription.medications = <<>>
    /\ (PrimaryReturned /\ calls.invalid > 0) =>
          \A r \in OverconfidentResponses :
              /\ ExtractInvalid(r)
              /\ extract(r) = ExtractedPrescription("unknown")
              /\ image_path.exists =>
                    /\ VisionInvalid(image_path, ocr_confidence, r)
                    /\ extract_from_image(image_path, ocr_confidence, r)
                          = VisionFailure

C20_Witness ==
    /\ ProcessDone
    /\ calls.invalid = 1
    /\ calls.llm_text = 1
    /\ prescription.confidence_score = None
    /\ prescription.document_type = "unknown"
    /\ prescription.ocr_confidence = 80
    /\ prescription.doctor_signature.confidence = 90
    /\ OverconfidentResponses # {}

\* C21: in process_batch a document whose image file is missing gets an
\* error entry (the path and an error text), not a normally returned record.
C21_MissingImageIsErrorEntry ==
    op = "batch" =>
        \A i \in 1..Len(results) :
            ~image_paths[i].exists => results[i][2].error # "None"

\* C22: the regex parser never fails and is never retried: for every OCR
\* text, the empty one included, and every confidence, process gets a
\* "prescription" record from one call of parse, possibly without line
\* items, with no remote call and no failure, and that record is the value
\* of parse for the text and the confidence.
C22_ParserNeverFails ==
    (PrimaryDone /\ calls.regex > 0) =>
        /\ calls.regex = 1
        /\ calls.failed = 0 /\ calls.invalid = 0
        /\ calls.remote = (IF pc = "done" /\ image_path.exists
                           THEN calls.signature ELSE 0)
        /\ prescription.document_type = "prescription"
        /\ prescription.confidence_score = ocr_confidence
        /\ Content(prescription) =
              [parse(ocr_text, ocr_confidence) EXCEPT
                  !.prescription_type = prescription_type]

C22_Witness ==
    /\ ProcessDone
    /\ calls.regex = 1
    /\ image_path.exists
    /\ ocr_text = <<>>
    /\ ocr_confidence = 100
    /\ prescription.document_type = "prescription"
    /\ prescription.medications = <<>>

\* Every line item of the record has a name that is non-empty once trimmed.
NamesNonEmpty(p) ==
    \A i \in 1..Len(p.medications) : strip(p.medications[i].name) # ""

\* C23: every line item of every record the system returns has a name that
\* is non-empty after trimming, whether it came from a remote response or
\* from the regex parser.
C23_NamesNonEmpty ==
    /\ PrimaryDone => NamesNonEmpty(prescription)
    /\ (op = "retry" /\ Returned) => NamesNonEmpty(result)

\* The half of C23 that holds: the items of the regex parser.
C23_ParserNamesNonEmpty ==
    (PrimaryDone /\ calls.regex > 0) => NamesNonEmpty(prescription)

\* C24: extract_json_from_response tries the fenced block first and the
\* brace-delimited span second, and raises only if neither holds parseable
\* JSON; a text whose fenced block does not parse but whose brace-delimited
\* span does is parsed.
C24_FallsBackToBraceSpan ==
    op = "json" =>
        (json_result.ok <=> (response.fence = "good" \/ response.brace = "good"))

\* What the function does: a fenced block, once found, decides alone.
C24_FenceDecidesAlone ==
    op = "json" =>
        (json_result.ok <=>
            IF response.fence # "none" THEN response.fence = "good"
            ELSE response.brace = "good")

\* The regex parser has structured, at confidence 0.8, the text whose lines
\* are "1. Amoxicillin 500mg 2 vien sang sau an" and "sang 1 vien ngay 2 lan".
TwoLinesParsed ==
    /\ PrimaryDone
    /\ calls.regex = 1
    /\ ~llm_text
    /\ ocr_confidence = 80
    /\ ocr_text = <<"1. Amoxicillin 500mg 2 vien sang sau an",
                    "sang 1 vien ngay 2 lan">>

\* C25: with confidence 0.8 and the text extractor unavailable, the regex
\* parser turns the first line into an item with name "Amoxicillin", dosage
\* "500mg" and the meal-relation phrase "sau an" as frequency.
C25_AmoxicillinLine ==
    TwoLinesParsed =>
        /\ Len(prescription.medications) = 2
        /\ prescription.medications[1] =
              [name |-> "Amoxicillin", dosage |-> "500mg", frequency |-> "sau an"]

\* What the parser gives: the quantity and the time of day stay in the name.
C25_NameKeepsQuantity ==
    TwoLinesParsed =>
        /\ Len(prescription.medications) = 2
        /\ prescription.medications[1] =
              [name |-> "Amoxicillin 2 vien sang", dosage |-> "500mg",
               frequency |-> "sau an"]

\* C26: when several frequency patterns match a line, the frequency is the
\* longest of their matches, not the match of the pattern listed first
\* (second line of the text: patterns 1 and 2 match).
C26_LongestFrequencyMatch ==
    TwoLinesParsed =>
        /\ Len(prescription.medications) = 2
        /\ \A n \in 1..5 :
              FreqMatch("sang 1 vien ngay 2 lan", n) # "None" =>
                  Len(prescription.medications[2].frequency)
                      >= Len(FreqMatch("sang 1 vien ngay 2 lan", n))

\* What the parser gives: the match of the first pattern of the list.
C26_FirstListedPatternWins ==
    TwoLinesParsed =>
        /\ FreqMatch("sang 1 vien ngay 2 lan", 2) = "sang 1 vien ngay 2 lan"
        /\ prescription.medications[2] =
              [name |-> "sang 1 vien", dosage |-> "None",
               frequency |-> "ngay 2 lan"]

\* C27: for every strategy and every outcome, a failed remote extraction
\* included, the prescription_type of the record of process is the
\* classifier's result for the image path and the OCR confidence; the type
\* of the remote response or of the regex parser is overwritten.
C27_TypeIsClassifiers ==
    PrimaryDone =>
        /\ prescription.prescription_type =
              classify_prescription_type(image_path, ocr_confidence)
        /\ prescription.prescription_type = prescription_type
        /\ prescription.prescription_type \in PrescriptionTypes

C27_Witness ==
    /\ ProcessDone
    /\ calls.regex = 1
    /\ image_path.folder = {"handwrit"}
    /\ ocr_confidence = 95
    /\ ParserType(ocr_confidence) = "printed"
    /\ prescription.prescription_type = "handwritten"

\* No folder hint, override off, vision extractor available.
PlainRouting ==
    /\ PrimaryDone
    /\ HintKeywords = {}
    /\ ~force_vision
    /\ vision

\* C28 as stated: under PlainRouting text analysis is chosen exactly when
\* the OCR confidence is at least 0.7; confidences in [0.6, 0.7) are typed
\* mixed and go to image analysis; the 0.6 threshold matters only for a
\* document typed printed or digital by a folder hint.
C28_TextFromSeventy ==
    /\ PlainRouting =>
          /\ calls.llm_text = 1 <=> ocr_confidence >= 70
          /\ (60 <= ocr_confidence /\ ocr_confidence < 70) =>
                (prescription_type = "mixed" /\ calls.vision = 1)
    /\ (Classified /\ ocr_confidence < 60
           /\ prescription_type \in {"printed", "digital"}) => HintKeywords # {}

\* C28 amended: under PlainRouting image analysis is chosen exactly when the
\* OCR confidence is below 0.7; from 0.7 on the text extractor is chosen if
\* it is available and the regex parser if it is not; the rest as stated.
C28_VisionBelowSeventy ==
    /\ PlainRouting =>
          /\ calls.vision = 1 <=> ocr_confidence < 70
          /\ calls.llm_text = 1 <=> (ocr_confidence >= 70 /\ llm_text)
          /\ calls.regex = 1 <=> (ocr_confidence >= 70 /\ ~llm_text)
          /\ (60 <= ocr_confidence /\ ocr_confidence < 70) =>
                (prescription_type = "mixed" /\ calls.vision = 1)
    /\ (Classified /\ ocr_confidence < 60
           /\ prescription_type \in {"printed", "digital"}) => HintKeywords # {}

C28_Witness ==
    /\ PlainRouting /\ pc = "done"
    /\ llm_text
    /\ ocr_confidence = 69
    /\ prescription_type = "mixed"
    /\ calls.vision = 1 /\ calls.llm_text = 0

\* C29: an attempt counts as successful only if the response named a
\* document type: a response whose JSON object has no document_type key
\* ("{}") is not accepted as a success by extract / extract_with_retry.
C29_SuccessNeedsType ==
    op = "retry" =>
        /\ \A i \in 1..Len(log) : log[i].ok => log[i].typed
        /\ (Returned /\ ~AllFailed) => log[Len(log)].typed

\* What the code does: the schema default makes "{}" a "prescription".
C29_DefaultTypeAccepted ==
    (op = "retry" /\ Returned /\ ~AllFailed /\ ~log[Len(log)].typed) =>
        /\ result.document_type = "prescription"
        /\ Succeeded(result)

\* C30 as stated: after process returns, the metadata's extraction_method
\* equals the record's for every primary strategy, and the metadata's is
\* never the initial "ocr_only".
C30_MethodsAgree ==
    ProcessDone =>
        /\ metadata.extraction_method = prescription.extraction_method
        /\ metadata.extraction_method # "ocr_only"

\* C30 amended: the two values are equal after text analysis only; after
\* image analysis the metadata's is the record's followed by "_vision", after
\* the regex parser the record's followed by "_regex"; the metadata's is
\* never the initial "ocr_only".
C30_MethodsNameSameStrategy ==
    ProcessDone =>
        /\ metadata.extraction_method # "ocr_only"
        /\ calls.llm_text = 1 =>
              metadata.extraction_method = prescription.extraction_method
        /\ calls.vision = 1 =>
              metadata.extraction_method =
                  prescription.extraction_method \o "_vision"
        /\ calls.regex = 1 =>
              metadata.extraction_method =
                  prescription.extraction_method \o "_regex"
        /\ (metadata.extraction_method = prescription.extraction_method)
              <=> calls.llm_text = 1

C30_Witness ==
    /\ ProcessDone
    /\ calls.regex = 1
    /\ prescription.extraction_method = "ocr_only"
    /\ metadata.extraction_method = "ocr_only_regex"

=============================================================================
